---- MODULE Spec2Model ----
(***************************************************************************)
(* notifybot: an IRC bot that polls ISON for a set of nicknames and mails  *)
(* a notification on every online/offline transition.                      *)
(*                                                                         *)
(* Two revisions of internal/bot/bot.go are modelled side by side:         *)
(*   "v0.3a"  src/internal/bot/bot.go                                      *)
(*   "v0.3c"  src/unnamed/part_003                                         *)
(* The revision is fixed in Init; where the two differ, the definitions    *)
(* carry the revision in their name or branch on `version`.                *)
(*                                                                         *)
(* Text is modelled as a sequence of atoms: an atom is an indivisible      *)
(* piece of text ("alice", "NOTICE", ":", "_", " ").  A Go string is the   *)
(* sequence of its atoms; the string functions below work on atoms the     *)
(* way the Go functions work on bytes.                                     *)
(***************************************************************************)
EXTENDS Integers, Sequences, FiniteSets, Bags, TLC

VARIABLES
    version,    \* which revision of bot.go runs
    conf,       \* b.conf: [BotName, Channels]; BotName is mutated on 433
    nicknames,  \* b.nicknames: map[string]bool
    connected,  \* b.connected
    sleepDuration, \* b.sleepDuration, in seconds
    pc,         \* where the main goroutine (main -> Run) is
    site,       \* which call site connect()/reconnect() returns to
    conn,       \* the conn variable of the innermost Run frame (0 = nil)
    frames,     \* conn variables of the suspended outer Run frames (v0.3a recursion)
    socks,      \* every net.Conn dialled so far: [closed, out]
    pollers,    \* the goroutines started by the ready branch
    msg,        \* scanner.Text() of the line dispatched last
    notified,   \* bag of the messages passed to notify() by the last dispatch
    sent,       \* bag of the SendEmail calls made by the last dispatch
    hist        \* history: counters over the run so far, the presence reply
                \* processed last, whether the current session has had one

vars == << version, conf, nicknames, connected, sleepDuration, pc, site,
           conn, frames, socks, pollers, msg, notified, sent, hist >>

-----------------------------------------------------------------------------
(* Bounds of the model *)

MaxLines == 2     \* lines dispatched over the whole run
MaxConns == 2     \* connections dialled successfully over the whole run
MaxFails == 1     \* failed dials within one connection establishment
MaxPolls == 1     \* ISON lines written over the whole run

-----------------------------------------------------------------------------
(* Atoms and the Go string functions used by the bot *)

SP == " "
CRLF == "CRLF"

RECURSIVE Split(_, _)
\* strings.Split(s, sep) for a one-atom separator: always at least one field
Split(s, sep) ==
    IF \A i \in 1..Len(s) : s[i] # sep
    THEN << s >>
    ELSE LET i == CHOOSE k \in 1..Len(s) :
                      s[k] = sep /\ \A j \in 1..(k - 1) : s[j] # sep
         IN  << SubSeq(s, 1, i - 1) >> \o Split(SubSeq(s, i + 1, Len(s)), sep)

RECURSIVE Join(_, _)
\* strings.Join(elems, sep)
Join(elems, sep) ==
    IF elems = << >> THEN << >>
    ELSE IF Len(elems) = 1 THEN elems[1]
    ELSE elems[1] \o << sep >> \o Join(Tail(elems), sep)

\* strings.TrimPrefix(s, prefix)
TrimPrefix(s, prefix) ==
    IF Len(s) >= Len(prefix) /\ SubSeq(s, 1, Len(prefix)) = prefix
    THEN SubSeq(s, Len(prefix) + 1, Len(s))
    ELSE s

\* strings.Contains(s, substr)
Contains(s, substr) ==
    \E i \in 1..(Len(s) - Len(substr) + 1) :
        SubSeq(s, i, i + Len(substr) - 1) = substr

RECURSIVE TrimSpace(_)
\* strings.TrimSpace(s)
TrimSpace(s) ==
    IF s = << >> THEN s
    ELSE IF Head(s) = SP THEN TrimSpace(Tail(s))
    ELSE IF s[Len(s)] = SP THEN TrimSpace(SubSeq(s, 1, Len(s) - 1))
    ELSE s

\* strings.Fields(s): the maximal runs of non-space atoms
Fields(s) == SelectSeq(Split(s, SP), LAMBDA f : f # << >>)

\* slices.Contains(list, x)
SlicesContains(list, x) == \E i \in 1..Len(list) : list[i] = x

-----------------------------------------------------------------------------
(* Configuration: what main() hands to NewNotifyBot *)

BaseName == << "bot" >>

\* The environments main() is started in, as (NICKNAMES, CHANNELS, PORT,
\* SLEEP_MIN): the first two after strings.Split(.., ","), which always
\* yields at least one element.  All set; NICKNAMES, CHANNELS and SLEEP_MIN
\* unset (one empty nickname, one empty channel); PORT unset.
Environments ==
    { [names |-> { << "alice" >>, << "bob" >> },
       channels |-> << << "#a" >>, << "#b" >> >>,
       port |-> << "6667" >>,
       sleepMin |-> << "10", "m" >>],
      [names |-> { << >> }, channels |-> << << >> >>, port |-> << "6667" >>,
       sleepMin |-> << >>],
      [names |-> { << "alice" >>, << "bob" >> },
       channels |-> << << "#a" >>, << "#b" >> >>,
       port |-> << >>,
       sleepMin |-> << "10", "m" >>] }

loadNicknamesFromEnv(names) == [n \in names |-> FALSE]

\* loadConfigFromEnv(): a required variable that is unset is logged at debug
\* level and the configuration is returned all the same
loadConfigFromEnv(env) ==
    [BotName |-> BaseName, Channels |-> env.channels, Port |-> env.port,
     SleepMin |-> env.sleepMin]

-----------------------------------------------------------------------------
(* NewNotifyBot: the poll interval *)

\* the numerals and units a duration string is made of, and their values;
\* durations are counted in seconds
Numerals == { "0", "1", "5", "10", "90" }
NumeralValue == ("0" :> 0) @@ ("1" :> 1) @@ ("5" :> 5) @@ ("10" :> 10) @@ ("90" :> 90)
Units == { "s", "m", "h" }
UnitSeconds == ("s" :> 1) @@ ("m" :> 60) @@ ("h" :> 3600)

NoDuration == [err |-> TRUE, d |-> 0]

RECURSIVE ParseTerms(_)
\* the loop of time.ParseDuration: number, unit, number, unit, ...
ParseTerms(s) ==
    IF s = << >> THEN [err |-> FALSE, d |-> 0]
    ELSE IF Head(s) \notin Numerals THEN NoDuration          \* invalid duration
    ELSE IF Len(s) < 2 THEN NoDuration                       \* missing unit
    ELSE IF s[2] \notin Units THEN NoDuration                \* unknown unit
    ELSE LET rest == ParseTerms(SubSeq(s, 3, Len(s)))
         IN  IF rest.err THEN NoDuration
             ELSE [err |-> FALSE,
                   d |-> NumeralValue[s[1]] * UnitSeconds[s[2]] + rest.d]

\* time.ParseDuration(s): [-+]?([0-9]*[a-z]+)+, and "0" alone
ParseDuration(s) ==
    LET neg == s # << >> /\ Head(s) = "-"
        t == IF s # << >> /\ Head(s) \in { "-", "+" } THEN Tail(s) ELSE s
    IN  IF t = << "0" >> THEN [err |-> FALSE, d |-> 0]
        ELSE IF t = << >> THEN NoDuration
        ELSE LET r == ParseTerms(t)
             IN  IF r.err THEN NoDuration
                 ELSE [err |-> FALSE, d |-> IF neg THEN 0 - r.d ELSE r.d]

FiveMinutes == 300

\* a parse failure is not looked at: the zero Duration is returned
newSleepDuration_IgnoresError(SleepMin) ==
    IF SleepMin # << >> THEN ParseDuration(SleepMin).d ELSE FiveMinutes

\* the function literal that initialises sleepDuration in NewNotifyBot
newSleepDuration(SleepMin) ==
    IF SleepMin # << >>
    THEN IF ParseDuration(SleepMin).err
         THEN FiveMinutes
         ELSE ParseDuration(SleepMin).d
    ELSE FiveMinutes

-----------------------------------------------------------------------------
(* Connections *)

NoConn == 0

NewSock == [closed |-> FALSE, out |-> << >>]

\* net.Conn.Write as used through fmt.Fprintf: fails once the conn is closed
CanWrite(s, c) == c \in 1..Len(s) /\ ~s[c].closed

\* fmt.Fprintf(conn, ...) with the result ignored
Fprintf(s, c, line) ==
    IF CanWrite(s, c) THEN [s EXCEPT ![c].out = Append(@, line)] ELSE s

\* conn.Close()
Close(s, c) == IF c \in 1..Len(s) THEN [s EXCEPT ![c].closed = TRUE] ELSE s

NickLine(name) == << "NICK", SP >> \o name \o << CRLF >>
UserLine(name) == << "USER", SP >> \o name \o << SP, "8", SP, "*", SP, ":" >> \o name \o << CRLF >>

\* setNickname(conn)
setNickname(s, c, name) == Fprintf(Fprintf(s, c, NickLine(name)), c, UserLine(name))

-----------------------------------------------------------------------------
(* Init: the process starts; main() has not yet called Run() *)

Init ==
    /\ version \in { "v0.3a", "v0.3c" }
    /\ \E env \in Environments :
          /\ conf = loadConfigFromEnv(env)
          /\ nicknames = loadNicknamesFromEnv(env.names)
    /\ connected = FALSE
    /\ sleepDuration = 0
    /\ pc = "main"
    /\ site = "run"
    /\ conn = NoConn
    /\ frames = << >>
    /\ socks = << >>
    /\ pollers = << >>
    /\ msg = << >>
    /\ notified = EmptyBag
    /\ sent = EmptyBag
    /\ hist = [lines |-> 0, fails |-> 0, sleeps |-> 0, polls |-> 0,
               last303 |-> << >>, collisions |-> 0, replied |-> FALSE]

\* main(): the configuration and the nicknames are loaded, the bot is built
\* (NewNotifyBot works out the poll interval) and Run() is called; nothing in
\* between can end the process
main ==
    /\ pc = "main"
    /\ pc' = "connecting"
    /\ sleepDuration' = newSleepDuration(conf.SleepMin)
    /\ UNCHANGED << version, conf, nicknames, connected, site, conn, frames,
                    socks, pollers, msg, notified, sent, hist >>

-----------------------------------------------------------------------------
(* Connection establishment: connect(), reconnect(), setNickname() *)

\* net.Dial("tcp", net.JoinHostPort(Server, Port)) can succeed: an empty port
\* is port 0, which no dial reaches
CanDial(c) == c.Port # << >>

\* a dial that succeeds: a fresh conn is assigned to the frame's conn variable
Dialled ==
    /\ CanDial(conf)
    /\ Len(socks) < MaxConns
    /\ socks' = Append(socks, NewSock)
    /\ conn' = Len(socks) + 1
    /\ pc' = "identifying"

\* Run: conn, err := b.connect(); on error Run calls reconnect() at once
ConnectOk ==
    /\ pc = "connecting"
    /\ Dialled
    /\ UNCHANGED << version, sleepDuration, conf, nicknames, connected, site, frames,
                    pollers, msg, notified, sent, hist >>

ConnectFail ==
    /\ pc = "connecting"
    /\ hist.fails < MaxFails
    /\ pc' = "reconnecting"
    /\ conn' = NoConn
    /\ hist' = [hist EXCEPT !.fails = @ + 1]
    /\ UNCHANGED << version, sleepDuration, conf, nicknames, connected, site, frames,
                    socks, pollers, msg, notified, sent >>

\* reconnect(): one turn of its loop whose connect() succeeds
ReconnectOk ==
    /\ pc = "reconnecting"
    /\ Dialled
    /\ UNCHANGED << version, sleepDuration, conf, nicknames, connected, site, frames,
                    pollers, msg, notified, sent, hist >>

\* reconnect(): one turn of its loop whose connect() fails; it then sleeps
ReconnectFail ==
    /\ pc = "reconnecting"
    /\ hist.fails < MaxFails
    /\ pc' = "backoff"
    /\ hist' = [hist EXCEPT !.fails = @ + 1]
    /\ UNCHANGED << version, sleepDuration, conf, nicknames, connected, site, conn, frames,
                    socks, pollers, msg, notified, sent >>

\* reconnect() gives up after a failed dial instead of sleeping and retrying
Backoff_GivesUp ==
    /\ pc = "backoff"
    /\ pc' = "exited"
    /\ hist' = [hist EXCEPT !.sleeps = @ + 1]
    /\ UNCHANGED << version, sleepDuration, conf, nicknames, connected, site, conn, frames,
                    socks, pollers, msg, notified, sent >>

\* reconnect(): time.Sleep(3 * time.Minute) returns
Backoff ==
    /\ pc = "backoff"
    /\ pc' = "reconnecting"
    /\ hist' = [hist EXCEPT !.sleeps = @ + 1]
    /\ UNCHANGED << version, sleepDuration, conf, nicknames, connected, site, conn, frames,
                    socks, pollers, msg, notified, sent >>

\* b.setNickname(conn) after a dial, then what the call site does next:
\* the read loop (Run's start, the ERROR branch of v0.3a), or in v0.3a's
\* in-loop read-error branch a nested b.Run()
Identify ==
    /\ pc = "identifying"
    /\ socks' = setNickname(socks, conn, conf.BotName)
    /\ IF site = "readerr"
       THEN /\ frames' = Append(frames, conn)
            /\ conn' = NoConn
            /\ pc' = "connecting"
            /\ site' = "run"
            /\ hist' = [hist EXCEPT !.fails = 0, !.sleeps = 0,
                                   !.replied = FALSE]
       ELSE /\ pc' = "active"
            /\ hist' = [hist EXCEPT !.fails = 0, !.sleeps = 0,
                                   !.replied = FALSE]
            /\ UNCHANGED << frames, conn, site >>
    /\ UNCHANGED << version, sleepDuration, conf, nicknames, connected, pollers, msg,
                    notified, sent >>

-----------------------------------------------------------------------------
(* The lines the server may send (scanner.Text() values) *)

Tok(w) == << w >>
Colon(w) == << ":", w >>
Line(tokens) == Join(tokens, SP)

Srv == Colon("srv")
IsonReply(list) == Line(<< Srv, Tok("303"), BaseName >> \o list)

Lines ==
    { << >>,                                                \* the empty line
      Line(<< Tok("PING") >>),
      Line(<< Tok("PING"), Colon("server1") >>),
      Line(<< Tok("PING"), Tok("433") >>),
      Line(<< Tok("PING"), Tok("303") >>),
      Line(<< Tok("PING"), Tok("PRIVMSG"), BaseName, Colon("VERSION"),
              Tok("NOTICE"), BaseName, Colon("on") >>),
      Line(<< Tok("ERROR") >>),
      Line(<< Tok("ERROR"), Colon("Closing") >>),
      Line(<< Tok("ERROR"), Tok("433") >>),
      Line(<< Tok("ERROR"), Tok("PRIVMSG"), BaseName, Colon("VERSION") >>),
      IsonReply(<< >>),                                     \* only 3 fields
      IsonReply(<< << ":" >> >>),                           \* ":srv 303 bot :"
      IsonReply(<< Colon("bob") >>),
      IsonReply(<< Colon("alice"), Tok("bob") >>),
      Line(<< Srv, Tok("433"), Tok("*"), BaseName >>),
      Line(<< << ":", "u", "!", "h" >>, Tok("PRIVMSG"), BaseName >>),
      Line(<< << ":", "u", "!", "h" >>, Tok("PRIVMSG"), BaseName, Colon("hi") >>),
      Line(<< << ":", "u", "!", "h" >>, Tok("PRIVMSG"), BaseName,
              << ":", "\\001", "VERSION", "\\001" >> >>),
      Line(<< Srv, Tok("NOTICE"), BaseName, Colon("on") >>),
      Line(<< Srv, Tok("NOTICE"), BaseName \o << "_" >>, Colon("on") >>),
      Line(<< Srv, Tok("001"), BaseName >>) }

-----------------------------------------------------------------------------
(* The read loop of Run: one scanned line through the switch *)

\* the notice is looked for under the configured name, whatever the identity
ReadyNotice_BaseName(name) == << "NOTICE", SP >> \o BaseName \o << SP, ":", "on" >>

\* fmt.Sprintf("NOTICE %s :on", b.conf.BotName)
ReadyNotice(name) == << "NOTICE", SP >> \o name \o << SP, ":", "on" >>

\* the ERROR case tried before the numeric cases
Branch_ErrorFirst(line, name) ==
    LET parts == Split(line, SP) IN
    IF parts[1] = << "PING" >>
    THEN IF Len(parts) < 2 THEN "panic" ELSE "PING"
    ELSE IF parts[1] = << "ERROR" >> THEN "ERROR"
    ELSE IF Len(parts) < 2 THEN "panic"
    ELSE IF parts[2] = << "303" >> THEN "303"
    ELSE IF parts[2] = << "433" >> THEN "433"
    ELSE IF parts[2] = << "PRIVMSG" >>
         THEN IF Len(parts) < 4 THEN "panic" ELSE "PRIVMSG"
    ELSE IF Contains(line, ReadyNotice(name)) THEN "ready"
    ELSE "none"

\* Which case of Run's switch takes the line; "panic" is an index out of
\* range (parts[1] of a one-field line, parts[3] of a short PRIVMSG).
\* A TLA+ sequence is 1-based: Go's parts[k] is parts[k + 1] here.
Branch(line, name) ==
    LET parts == Split(line, SP) IN
    IF parts[1] = << "PING" >>
    THEN IF Len(parts) < 2 THEN "panic" ELSE "PING"
    ELSE IF Len(parts) < 2 THEN "panic"
    ELSE IF parts[2] = << "303" >> THEN "303"
    ELSE IF parts[2] = << "433" >> THEN "433"
    ELSE IF parts[2] = << "PRIVMSG" >>
         THEN IF Len(parts) < 4 THEN "panic" ELSE "PRIVMSG"
    ELSE IF parts[1] = << "ERROR" >> THEN "ERROR"
    ELSE IF Contains(line, ReadyNotice(name)) THEN "ready"
    ELSE "none"

\* the identities the bot can have: the base name and its decorations
Identities == { BaseName \o [k \in 1..n |-> "_"] : n \in 0..MaxLines }

\* the switch as a table: for each identity, the lines each case takes
Switch ==
    [name \in Identities |->
        [b \in { "panic", "PING", "303", "433", "PRIVMSG", "ERROR", "ready",
                 "none" } |->
            { line \in Lines : Branch(line, name) = b }]]

\* the lines that case b of the switch takes under the current identity
Taken(b) == Switch[conf.BotName][b]

\* scanner.Scan() returned true with this line.  err: scanner.Err() is non-nil
\* after this token (a read error arrived behind an unterminated last line).
\* In v0.3c the error is only looked at after the loop, so there the case is
\* this step followed by ScanEnd.
Scanned(line, err) ==
    /\ pc = "active"
    /\ hist.lines < MaxLines
    /\ err => version = "v0.3a"
    /\ msg' = line

\* After the switch: v0.3a checks scanner.Err() inside the loop and, when it
\* is set, closes the conn and calls reconnect(), setNickname() and Run().
Finish(err, s, h) ==
    IF err
    THEN /\ socks' = Close(s, conn)
         /\ pc' = "reconnecting"
         /\ site' = "readerr"
         /\ hist' = [h EXCEPT !.lines = @ + 1, !.fails = 0, !.sleeps = 0]
    ELSE /\ socks' = s
         /\ pc' = "active"
         /\ site' = site
         /\ hist' = [h EXCEPT !.lines = @ + 1]

\* the reply carries parts[0] instead of parts[1]
PongLine_Echo(token) == << "PONG", SP, "PING", CRLF >>

PongLine(token) == << "PONG", SP >> \o token \o << CRLF >>

\* case parts[0] == "PING"
DispatchPING ==
    \E line \in Taken("PING"), err \in BOOLEAN :
        /\ Scanned(line, err)
        /\ Finish(err,
                  Fprintf(socks, conn, PongLine(Split(line, SP)[2])),
                  hist)
        /\ notified' = EmptyBag
        /\ sent' = EmptyBag
        /\ UNCHANGED << version, sleepDuration, conf, nicknames, connected, conn, frames, pollers >>

\* an index out of range inside the switch: the process dies
DispatchPanic ==
    \E line \in Taken("panic"), err \in BOOLEAN :
        /\ Scanned(line, err)
        /\ pc' = "crashed"
        /\ socks' = socks
        /\ hist' = [hist EXCEPT !.lines = @ + 1]
        /\ notified' = EmptyBag
        /\ sent' = EmptyBag
        /\ UNCHANGED << version, sleepDuration, conf, nicknames, connected, site, conn, frames,
                        pollers >>

\* a line that no case matches is answered with a copy of itself
DispatchOther_Echo ==
    \E line \in Taken("none"), err \in BOOLEAN :
        /\ Scanned(line, err)
        /\ Finish(err, Fprintf(socks, conn, line \o << CRLF >>), hist)
        /\ notified' = EmptyBag
        /\ sent' = EmptyBag
        /\ UNCHANGED << version, sleepDuration, conf, nicknames, connected, conn, frames, pollers >>

\* no case matches: the line is only logged
DispatchOther ==
    \E line \in Taken("none"), err \in BOOLEAN :
        /\ Scanned(line, err)
        /\ Finish(err, socks, hist)
        /\ notified' = EmptyBag
        /\ sent' = EmptyBag
        /\ UNCHANGED << version, sleepDuration, conf, nicknames, connected, conn, frames, pollers >>

-----------------------------------------------------------------------------
(* Presence replies: handleISONResponse and notify *)

OnlineMsg(nickname) == nickname \o << SP, "is", SP, "online" >>
OfflineMsg(nickname) == nickname \o << SP, "is", SP, "offline" >>

\* the list without the TrimPrefix of its first element
currentnicknames_KeepColon(parts) == SubSeq(parts, 4, Len(parts))

\* v0.3a: parts[3] loses its leading colon and parts[3:] is the list
currentnicknames(parts) ==
    << TrimPrefix(parts[4], << ":" >>) >> \o SubSeq(parts, 5, Len(parts))

\* v0.3c: only parts[3] is read; it loses its leading colon and is cut into
\* fields
currentnicknames_v03c(parts) ==
    LET isonField == TrimSpace(TrimPrefix(parts[4], << ":" >>))
    IN  IF isonField # << >> THEN Fields(isonField) ELSE << >>

\* every listed name gets an entry, configured or not
UpdateNicknames_AddsListed(current, table) ==
    [ nicknames |->
        [n \in DOMAIN table \cup { current[i] : i \in 1..Len(current) } |->
            SlicesContains(current, n)],
      notified |->
        SetToBag({OnlineMsg(n) : n \in {k \in DOMAIN table :
                        SlicesContains(current, k) /\ ~table[k]}})
        (+) SetToBag({OfflineMsg(n) : n \in {k \in DOMAIN table :
                        ~SlicesContains(current, k) /\ table[k]}}) ]

\* the online branch negates the stored value instead of setting it
UpdateNicknames_Toggle(current, table) ==
    [ nicknames |->
        [n \in DOMAIN table |->
            IF SlicesContains(current, n) THEN ~table[n] ELSE FALSE],
      notified |->
        SetToBag({OnlineMsg(n) : n \in {k \in DOMAIN table :
                        SlicesContains(current, k) /\ ~table[k]}})
        (+) SetToBag({OfflineMsg(n) : n \in {k \in DOMAIN table : table[k]}}) ]

\* the loop without its test of the stored value: every listed peer is
\* announced online and every other peer offline, flipped or not
UpdateNicknames_NoStateCheck(current, table) ==
    [ nicknames |-> [n \in DOMAIN table |-> SlicesContains(current, n)],
      notified |->
        SetToBag({OnlineMsg(n) : n \in {k \in DOMAIN table :
                        SlicesContains(current, k)}})
        (+) SetToBag({OfflineMsg(n) : n \in {k \in DOMAIN table :
                        ~SlicesContains(current, k)}}) ]

\* the body of the loop over b.nicknames, which both revisions share: each
\* turn reads and writes the entry of its own nickname only, so the order of
\* Go's map iteration does not show in the result.
\* Yields the new map and the bag of messages handed to notify().
UpdateNicknames(current, table) ==
    [ nicknames |->
        [n \in DOMAIN table |->
            IF SlicesContains(current, n)
            THEN (IF ~table[n] THEN TRUE ELSE table[n])
            ELSE (IF table[n] THEN FALSE ELSE table[n])],
      notified |->
        SetToBag({OnlineMsg(n) : n \in {k \in DOMAIN table :
                        SlicesContains(current, k) /\ ~table[k]}})
        (+) SetToBag({OfflineMsg(n) : n \in {k \in DOMAIN table :
                        ~SlicesContains(current, k) /\ table[k]}}) ]

\* handleISONResponse(parts) of bot.go
handleISONResponse(parts, table) ==
    UpdateNicknames(currentnicknames(parts), table)

\* handleISONResponse(parts) of part_003
handleISONResponse_v03c(parts, table) ==
    UpdateNicknames(currentnicknames_v03c(parts), table)

\* notify(msg): one SendEmail call with the timestamped message as its body;
\* ok is whether SES accepted it (a failure is logged and nothing else)
notify(m, ok) ==
    SetToBag({ [Subject |-> "IRC Notification Event",
                Body |-> << "[", "timestamp", "]", SP >> \o m,
                ok |-> ok] })

\* a failed SendEmail ends the processing of the reply: the messages that
\* would have been accepted are never sent
SendAll_StopAtFailure(messages, failing) ==
    IF failing = { }
    THEN BagUnion({ notify(m, TRUE) : m \in BagToSet(messages) })
    ELSE BagUnion({ notify(m, FALSE) : m \in failing })

\* every SendEmail call made for the messages of one dispatch; failing is the
\* set of messages whose SendEmail returns an error
SendAll(messages, failing) ==
    BagUnion({ notify(m, m \notin failing) : m \in BagToSet(messages) })

\* a reply without a 4th field is taken as a reply with an empty list
Dispatch303_ShortIsEmpty ==
    \E line \in Taken("303"), err \in BOOLEAN :
        /\ Scanned(line, err)
        /\ LET parts == Split(line, SP)
               r == IF Len(parts) > 3
                    THEN IF version = "v0.3a"
                         THEN handleISONResponse(parts, nicknames)
                         ELSE handleISONResponse_v03c(parts, nicknames)
                    ELSE UpdateNicknames(<< >>, nicknames)
           IN  /\ nicknames' = r.nicknames
               /\ notified' = r.notified
               /\ \E failing \in SUBSET BagToSet(r.notified) :
                      sent' = SendAll(r.notified, failing)
               /\ Finish(err, socks,
                         IF Len(parts) > 3
                         THEN [hist EXCEPT !.last303 = line, !.replied = TRUE]
                         ELSE hist)
        /\ UNCHANGED << version, sleepDuration, conf, connected, conn, frames, pollers >>

\* case parts[1] == "303"
Dispatch303 ==
    \E line \in Taken("303"), err \in BOOLEAN :
        /\ Scanned(line, err)
        /\ LET parts == Split(line, SP)
               r == IF Len(parts) > 3
                    THEN IF version = "v0.3a"
                         THEN handleISONResponse(parts, nicknames)
                         ELSE handleISONResponse_v03c(parts, nicknames)
                    ELSE [nicknames |-> nicknames, notified |-> EmptyBag]
           IN  /\ nicknames' = r.nicknames
               /\ notified' = r.notified
               /\ \E failing \in SUBSET BagToSet(r.notified) :
                      sent' = SendAll(r.notified, failing)
               /\ Finish(err, socks,
                         IF Len(parts) > 3
                         THEN [hist EXCEPT !.last303 = line, !.replied = TRUE]
                         ELSE hist)
        /\ UNCHANGED << version, sleepDuration, conf, connected, conn, frames, pollers >>

\* a cap on the decoration: a second collision leaves the name alone
Decorate_Capped(name) ==
    IF name # BaseName THEN name ELSE name \o << "_" >>

\* fmt.Sprintf("%s_", b.conf.BotName)
Decorate(name) == name \o << "_" >>

\* case parts[1] == "433"
Dispatch433 ==
    \E line \in Taken("433"), err \in BOOLEAN :
        /\ Scanned(line, err)
        /\ conf' = [conf EXCEPT !.BotName = Decorate(@)]
        /\ Finish(err, setNickname(socks, conn, conf'.BotName),
                  [hist EXCEPT !.collisions = @ + 1])
        /\ notified' = EmptyBag
        /\ sent' = EmptyBag
        /\ UNCHANGED << version, sleepDuration, nicknames, connected, conn, frames, pollers >>

notifyBotVersion == IF version = "v0.3a" THEN "v0.3a" ELSE "v0.3c"

\* the host part is not cut off
Sender_KeepsHost(prefix) == TrimPrefix(prefix, << ":" >>)

\* the sender of a PRIVMSG: parts[0] without its colon, cut at the first "!"
Sender(prefix) == Split(TrimPrefix(prefix, << ":" >>), "!")[1]

VersionNotice(nickname) ==
    << "NOTICE", SP >> \o nickname
        \o << SP, ":", "NotifyBot", SP, notifyBotVersion, CRLF >>

\* case parts[1] == "PRIVMSG"
DispatchPRIVMSG ==
    \E line \in Taken("PRIVMSG"), err \in BOOLEAN :
        /\ Scanned(line, err)
        /\ LET parts == Split(line, SP)
           IN  Finish(err,
                      IF Contains(parts[4], << "VERSION" >>)
                      THEN Fprintf(socks, conn,
                                   VersionNotice(Sender(parts[1])))
                      ELSE socks,
                      hist)
        /\ notified' = EmptyBag
        /\ sent' = EmptyBag
        /\ UNCHANGED << version, sleepDuration, conf, nicknames, connected, conn, frames, pollers >>

\* the ERROR branch without its conn.Close()
DispatchERROR_NoClose ==
    \E line \in Taken("ERROR"), err \in BOOLEAN :
        /\ Scanned(line, err)
        /\ socks' = socks
        /\ IF version = "v0.3a"
           THEN pc' = "reconnecting" /\ site' = "error"
           ELSE pc' = "connecting" /\ site' = "run"
        /\ hist' = [hist EXCEPT !.lines = @ + 1, !.fails = 0, !.sleeps = 0]
        /\ notified' = EmptyBag
        /\ sent' = EmptyBag
        /\ UNCHANGED << version, sleepDuration, conf, nicknames, connected, conn, frames, pollers >>

\* case parts[0] == "ERROR": the conn is closed; v0.3a calls reconnect() and
\* carries on in the same loop with a new scanner (continue skips the
\* scanner.Err() check), v0.3c continues reconnectLoop, which calls connect()
DispatchERROR ==
    \E line \in Taken("ERROR"), err \in BOOLEAN :
        /\ Scanned(line, err)
        /\ socks' = Close(socks, conn)
        /\ IF version = "v0.3a"
           THEN pc' = "reconnecting" /\ site' = "error"
           ELSE pc' = "connecting" /\ site' = "run"
        /\ hist' = [hist EXCEPT !.lines = @ + 1, !.fails = 0, !.sleeps = 0]
        /\ notified' = EmptyBag
        /\ sent' = EmptyBag
        /\ UNCHANGED << version, sleepDuration, conf, nicknames, connected, conn, frames, pollers >>

-----------------------------------------------------------------------------
(* The ready notice and the pollers *)

JoinLine(channel) == << "JOIN", SP >> \o channel \o << CRLF >>
IsonLine(nicks) == << "ISON", SP >> \o nicks \o << CRLF >>

\* the loop leaves after its first turn
JoinAll_FirstOnly(s, c, channels) ==
    IF channels = << >> THEN s ELSE Fprintf(s, c, JoinLine(Head(channels)))

RECURSIVE JoinAll(_, _, _)
\* for _, channel := range b.conf.Channels { fmt.Fprintf(conn, "JOIN ...") }
JoinAll(s, c, channels) ==
    IF channels = << >> THEN s
    ELSE JoinAll(Fprintf(s, c, JoinLine(Head(channels))), c, Tail(channels))

\* the orders in which a range over the keys of a map may yield them
KeyOrders(table) ==
    { f \in [1..Cardinality(DOMAIN table) -> DOMAIN table] :
        \A k \in DOMAIN table : \E i \in DOMAIN f : f[i] = k }

\* the goroutine started by the ready branch.
\*   c      v0.3c: the parameter c; v0.3a: the value of the captured conn
\*          variable the goroutine saw last
\*   frame  v0.3a: the Run frame whose conn variable the closure captured
\*   nicks  the joined nicknames, computed once before the goroutine starts
\*   st     "start" (no write yet), "sleep" (in time.Sleep), "done" (returned)
\*   home   the conn it was started on
\*   late   whether it has written an ISON line after home was closed
NewPoller(c, frame, nicks) ==
    [c |-> c, frame |-> frame, nicks |-> nicks, st |-> "start",
     home |-> c, late |-> FALSE]

\* case strings.Contains(msg, "NOTICE <BotName> :on")
DispatchReady ==
    \E line \in Taken("ready"), err \in BOOLEAN :
        /\ Scanned(line, err)
        /\ connected' = TRUE
        /\ Finish(err,
                  IF conf.Channels[1] # << >>
                  THEN JoinAll(socks, conn, conf.Channels)
                  ELSE socks,
                  hist)
        /\ \E keys \in KeyOrders(nicknames) :
              pollers' = Append(pollers,
                                NewPoller(conn, Len(frames) + 1, Join(keys, SP)))
        /\ notified' = EmptyBag
        /\ sent' = EmptyBag
        /\ UNCHANGED << version, sleepDuration, conf, nicknames, conn, frames >>

\* the process is running: neither panicked nor returned from main
Running == pc \notin { "crashed", "exited" }

\* the conn variable of Run frame number f
FrameConn(f) == IF f = Len(frames) + 1 THEN conn ELSE frames[f]

\* One turn of the goroutine's loop in v0.3c, from the return of time.Sleep
\* (or from the start) to the next time.Sleep:
\* fmt.Fprintf(c, "ISON %s\r\n", nicks) on the conn it was given; it returns
\* when the write fails.
PollerWrite_v03c(i) ==
    /\ version = "v0.3c"
    /\ pollers[i].st \in { "start", "sleep" }
    /\ IF CanWrite(socks, pollers[i].c)
       THEN /\ hist.polls < MaxPolls
            /\ socks' = Fprintf(socks, pollers[i].c, IsonLine(pollers[i].nicks))
            /\ pollers' = [pollers EXCEPT ![i].st = "sleep"]
            /\ hist' = [hist EXCEPT !.polls = @ + 1]
       ELSE /\ socks' = socks
            /\ pollers' = [pollers EXCEPT ![i].st = "done"]
            /\ hist' = hist

\* One turn of the goroutine's loop in v0.3a:
\* fmt.Fprintf(conn, "ISON %s\r\n", nicknames), where conn is the variable of
\* the enclosing Run frame, which the ERROR branch assigns without
\* synchronization.  The racy read yields the value the goroutine saw last or
\* the current one.  The result of the write is ignored: the loop never ends.
PollerWrite(i) ==
    /\ version = "v0.3a"
    /\ pollers[i].st \in { "start", "sleep" }
    /\ \E target \in { pollers[i].c, FrameConn(pollers[i].frame) } :
          /\ CanWrite(socks, target) => hist.polls < MaxPolls
          /\ socks' = Fprintf(socks, target, IsonLine(pollers[i].nicks))
          /\ hist' = [hist EXCEPT
                        !.polls = IF CanWrite(socks, target) THEN @ + 1 ELSE @]
          /\ pollers' =
               [pollers EXCEPT
                  ![i].st = "sleep",
                  ![i].c = target,
                  ![i].late = @ \/ (CanWrite(socks, target)
                                      /\ socks[pollers[i].home].closed)]

\* a poller's turn that also marks every peer offline
PollerStep_MarksOffline ==
    \E i \in 1..Len(pollers) :
        /\ Running
        /\ \/ PollerWrite(i)
           \/ PollerWrite_v03c(i)
        /\ nicknames' = [n \in DOMAIN nicknames |-> FALSE]
        /\ UNCHANGED << version, sleepDuration, conf, connected, pc, site, conn,
                        frames, msg, notified, sent >>

\* one step of a poller goroutine
PollerStep ==
    \E i \in 1..Len(pollers) :
        /\ Running
        /\ \/ PollerWrite(i)
           \/ PollerWrite_v03c(i)
        /\ UNCHANGED << version, sleepDuration, conf, nicknames, connected, pc, site, conn,
                        frames, msg, notified, sent >>

\* scanner.Scan() returned false: end of stream, or a read error with nothing
\* buffered.  v0.3c closes the conn and loops to connect(); in v0.3a the for
\* loop ends and Run returns through every frame, running the deferred
\* conn.Close() of each, and main returns.
ScanEnd ==
    /\ pc = "active"
    /\ IF version = "v0.3c"
       THEN /\ socks' = Close(socks, conn)
            /\ pc' = "connecting"
            /\ hist' = [hist EXCEPT !.fails = 0, !.sleeps = 0]
       ELSE /\ socks' = [c \in 1..Len(socks) |->
                           IF c = conn \/ SlicesContains(frames, c)
                           THEN [socks[c] EXCEPT !.closed = TRUE]
                           ELSE socks[c]]
            /\ pc' = "exited"
            /\ hist' = hist
    /\ UNCHANGED << version, sleepDuration, conf, nicknames, connected, site, conn, frames,
                    pollers, msg, notified, sent >>

Next ==
    \/ main
    \/ ConnectOk
    \/ ConnectFail
    \/ ReconnectOk
    \/ ReconnectFail
    \/ Backoff
    \/ Identify
    \/ DispatchPING
    \/ Dispatch303
    \/ Dispatch433
    \/ DispatchPRIVMSG
    \/ DispatchERROR
    \/ DispatchReady
    \/ PollerStep
    \/ DispatchPanic
    \/ DispatchOther
    \/ ScanEnd

Spec == Init /\ [][Next]_vars

\* Scheduling: the main goroutine keeps running (it leaves main(), its dial
\* returns, its time.Sleep returns, setNickname returns), and a dial that
\* reconnect() attempts again and again while the server can be reached
\* succeeds at some attempt
Fairness ==
    /\ WF_vars(main)
    /\ WF_vars(ConnectOk)
    /\ SF_vars(ReconnectOk)
    /\ WF_vars(Backoff)
    /\ WF_vars(Identify)

\* The reconnect supervisor on its own: the steps that open, identify and
\* end a session.  A session ends by an ERROR line, by the end of the stream
\* or, in v0.3a, by a read error behind a line (here a line no case matches)
NextRetry ==
    \/ main
    \/ ConnectOk
    \/ ConnectFail
    \/ ReconnectOk
    \/ ReconnectFail
    \/ Backoff
    \/ Identify
    \/ DispatchERROR
    \/ DispatchOther
    \/ ScanEnd

SpecRetry == Init /\ [][NextRetry]_vars /\ Fairness

-----------------------------------------------------------------------------
(* handleISONResponse called on a bot built by NewNotifyBot with a table of  *)
(* any values, the way bot_test.go calls it: no connection, no read loop     *)

\* the parts handed to handleISONResponse: split presence replies with a
\* 4th field
Replies ==
    { Split(IsonReply(list), SP) :
        list \in { << << ":" >> >>,
                   << Colon("alice") >>,
                   << Colon("bob") >>,
                   << Colon("alice"), Tok("bob") >> } }

\* NewNotifyBot(config, log, nicknames): the caller's map is taken as it is
InitHandle ==
    /\ version \in { "v0.3a", "v0.3c" }
    /\ \E env \in Environments :
          /\ conf = loadConfigFromEnv(env)
          /\ nicknames \in [env.names -> BOOLEAN]
    /\ connected = FALSE
    /\ sleepDuration = newSleepDuration(conf.SleepMin)
    /\ pc = "test"
    /\ site = "run"
    /\ conn = NoConn
    /\ frames = << >>
    /\ socks = << >>
    /\ pollers = << >>
    /\ msg = << >>
    /\ notified = EmptyBag
    /\ sent = EmptyBag
    /\ hist = [lines |-> 0, fails |-> 0, sleeps |-> 0, polls |-> 0,
               last303 |-> << >>, collisions |-> 0, replied |-> FALSE]

\* bot.handleISONResponse(parts)
CallHandleISONResponse ==
    \E parts \in Replies :
        /\ pc = "test"
        /\ hist.lines < MaxLines
        /\ LET r == IF version = "v0.3a"
                    THEN handleISONResponse(parts, nicknames)
                    ELSE handleISONResponse_v03c(parts, nicknames)
           IN  /\ nicknames' = r.nicknames
               /\ notified' = r.notified
               /\ \E failing \in SUBSET BagToSet(r.notified) :
                      sent' = SendAll(r.notified, failing)
        /\ msg' = Join(parts, SP)
        /\ hist' = [hist EXCEPT !.lines = @ + 1, !.last303 = Join(parts, SP),
                              !.replied = TRUE]
        /\ UNCHANGED << version, sleepDuration, conf, connected, pc, site, conn, frames,
                        socks, pollers >>

NextHandle == CallHandleISONResponse

SpecHandle == InitHandle /\ [][NextHandle]_vars

-----------------------------------------------------------------------------
(* NewNotifyBot called by main() with SLEEP_MIN of any shape: the process    *)
(* from its start to its call of Run()                                       *)

\* values of SLEEP_MIN that time.ParseDuration cannot parse
Unparsable ==
    { << n >> : n \in Numerals \ { "0" } }
        \cup { << "abc" >>, << "m" >>, << "-" >>, << "5", "x" >>,
               << "5", "m", "abc" >>, << "5", "m", "10" >> }

\* values of SLEEP_MIN
SleepMins ==
    { << >>, << "0" >>, << "-", "0" >>, << "+", "0" >>,
      << "1", "h", "5", "m" >> }
        \cup { << n, u >> : n \in Numerals, u \in Units }
        \cup { << sg, n, u >> : sg \in { "-", "+" }, n \in Numerals, u \in Units }
        \cup Unparsable

InitConfig ==
    /\ version \in { "v0.3a", "v0.3c" }
    /\ \E sleepMin \in SleepMins :
          conf = loadConfigFromEnv([names |-> { << >> },
                                    channels |-> << << >> >>,
                                    port |-> << "6667" >>,
                                    sleepMin |-> sleepMin])
    /\ nicknames = loadNicknamesFromEnv({ << >> })
    /\ connected = FALSE
    /\ sleepDuration = 0
    /\ pc = "main"
    /\ site = "run"
    /\ conn = NoConn
    /\ frames = << >>
    /\ socks = << >>
    /\ pollers = << >>
    /\ msg = << >>
    /\ notified = EmptyBag
    /\ sent = EmptyBag
    /\ hist = [lines |-> 0, fails |-> 0, sleeps |-> 0, polls |-> 0,
               last303 |-> << >>, collisions |-> 0, replied |-> FALSE]

NextConfig == main

SpecConfig == InitConfig /\ [][NextConfig]_vars

-----------------------------------------------------------------------------
(* Vocabulary of the properties *)

\* the step dispatches a line (scanner.Scan() returned true)
DispatchStep == hist'.lines = hist.lines + 1

\* field k (1-based) of a line
Field(line, k) == Split(line, SP)[k]
NumFields(line) == Len(Split(line, SP))

\* the names a presence reply lists: the words after the colon that opens
\* its 4th field
NamedIn(line) ==
    LET parts == Split(line, SP)
    IN  { TrimPrefix(parts[k], IF k = 4 THEN << ":" >> ELSE << >>) :
            k \in 4..Len(parts) } \ { << >> }

\* a NICK line and the USER line of the same name follow each other in a log
Identified(out) ==
    \E i \in 1..(Len(out) - 1) :
        /\ out[i][1] = "NICK"
        /\ out[i + 1] = UserLine(SubSeq(out[i], 3, Len(out[i]) - 1))

Alive(i) == Running /\ pollers[i].st # "done"

\* the step dispatches a line behind which v0.3a finds scanner.Err() set: what
\* the in-loop error branch does (close, reconnect) follows the dispatch in
\* the same step
ReadError == DispatchStep /\ pc' = "reconnecting" /\ site' = "readerr"

\* the step leaves every conn but the current one alone
OtherConnsUntouched ==
    /\ Len(socks') = Len(socks)
    /\ \A c \in 1..Len(socks) : c # conn => socks'[c] = socks[c]

\* the step leaves the session as it is: open, current, and still read
SessionGoesOn ==
    /\ conn' = conn
    /\ ~ReadError => (pc' = "active" /\ ~socks'[conn].closed)

\* C1: after any sequence of lines, a peer's table value is true iff the
\* peer is named in the list of the presence reply (second field 303, at
\* least 4 fields) processed last; with no such reply it is still false.
C1_TableIsLastReply ==
    \A n \in DOMAIN nicknames :
        nicknames[n] <=> (hist.last303 # << >> /\ n \in NamedIn(hist.last303))

\* C2: processing one presence reply calls notify exactly once for each peer
\* whose value flips ("<name> is online" for false->true, "<name> is
\* offline" for true->false) and not at all for the others; each notify call
\* makes exactly one SendEmail call.
C2_NotifyOncePerFlip ==
    [][ (DispatchStep /\ Branch(msg', conf.BotName) = "303"
                      /\ NumFields(msg') > 3)
        => /\ \A n \in DOMAIN nicknames :
                /\ CopiesIn(OnlineMsg(n), notified')
                     = (IF ~nicknames[n] /\ nicknames'[n] THEN 1 ELSE 0)
                /\ CopiesIn(OfflineMsg(n), notified')
                     = (IF nicknames[n] /\ ~nicknames'[n] THEN 1 ELSE 0)
           /\ BagCardinality(notified')
                = Cardinality({n \in DOMAIN nicknames : nicknames[n] # nicknames'[n]})
           /\ BagCardinality(sent') = BagCardinality(notified')
           /\ \A m \in BagToSet(notified') :
                Cardinality({e \in BagToSet(sent') : Contains(e.Body, m)}) = 1
      ]_vars

\* C2 witness: one reply has flipped a peer and mailed for it
C2_Witness ==
    /\ \E n \in DOMAIN nicknames : nicknames[n] /\ CopiesIn(OnlineMsg(n), notified) = 1
    /\ BagCardinality(sent) >= 1

\* C3: dispatching a line never crashes the process, whatever its number of
\* fields.
C3_NeverCrashes == pc # "crashed"

\* C4: the supervisor has no terminal state: after end-of-stream or a read
\* error it goes back to connection establishment; Run never returns.
C4_RunNeverReturns == pc # "exited"

C6_BackoffPerFailedOpen ==
    pc = "identifying" => hist.sleeps = hist.fails

\* C7: no two pollers started on different sessions are alive at once.
C7_PollersOfOneSession ==
    \A i, j \in 1..Len(pollers) :
        Alive(i) /\ Alive(j) => pollers[i].home = pollers[j].home

\* C8: at most one poller is ever started per session.
C8_OnePollerPerSession ==
    \A i, j \in 1..Len(pollers) :
        pollers[i].home = pollers[j].home => i = j

\* C9: once the session a poller was started on is closed, the poller writes
\* no further poll request.
C9_NoPollAfterClose ==
    \A i \in 1..Len(pollers) : ~pollers[i].late

\* C10 as stated: every dispatched line whose second field is 433 appends
\* one "_" to the identity and writes one NICK and one USER line carrying
\* the new identity on the current session.
C10_Any433Decorates ==
    [][ (DispatchStep /\ NumFields(msg') >= 2 /\ Field(msg', 2) = << "433" >>)
        => /\ conf'.BotName = conf.BotName \o << "_" >>
           /\ socks'[conn].out = socks[conn].out
                \o << NickLine(conf'.BotName), UserLine(conf'.BotName) >>
      ]_vars

\* C10 as amended: every dispatched line whose second field is 433 and whose
\* first field is not PING appends one "_" to the identity and writes one
\* NICK and one USER line carrying the new identity on the current session;
\* there is no cap: the identity is the base name followed by one "_" per
\* such line dispatched so far.
C10_CollisionDecorates ==
    [][ /\ (DispatchStep /\ NumFields(msg') >= 2 /\ Field(msg', 2) = << "433" >>
              /\ Field(msg', 1) # << "PING" >>)
           => /\ conf'.BotName = conf.BotName \o << "_" >>
              /\ socks'[conn].out = socks[conn].out
                   \o << NickLine(conf'.BotName), UserLine(conf'.BotName) >>
              /\ hist'.collisions = hist.collisions + 1
        /\ conf'.BotName = BaseName \o [k \in 1..hist'.collisions |-> "_"]
      ]_vars

\* C10 witness: two collisions have made "bot" into "bot__"
C10_Witness ==
    /\ conf.BotName = << "bot", "_", "_" >>
    /\ Branch(msg, << "bot", "_" >>) = "433"
    /\ pc = "active"
    /\ Len(socks[conn].out) = 6

\* C11: dispatching a line whose first field is PING and whose second field
\* is T writes exactly one line "PONG T" on the current session and changes
\* nothing else: table, identity, pollers and session are as before and
\* notify is not called.  (A read error found behind the line is not part of
\* the dispatch: it alone may end the session in the same step.)
C11_PingWritesOnePong ==
    [][ (DispatchStep /\ NumFields(msg') >= 2 /\ Field(msg', 1) = << "PING" >>)
        => /\ socks'[conn].out
                = Append(socks[conn].out,
                         << "PONG", SP >> \o Field(msg', 2) \o << CRLF >>)
           /\ OtherConnsUntouched
           /\ SessionGoesOn
           /\ nicknames' = nicknames
           /\ conf' = conf
           /\ pollers' = pollers
           /\ connected' = connected
           /\ notified' = EmptyBag
           /\ sent' = EmptyBag
      ]_vars

\* C11 witness: "PING :server1" was dispatched and "PONG :server1" is the last
\* line written on the session, which is still read
C11_Witness ==
    /\ msg = << "PING", SP, ":", "server1" >>
    /\ hist.lines >= 1
    /\ pc = "active"
    /\ socks[conn].out[Len(socks[conn].out)] = << "PONG", SP, ":", "server1", CRLF >>

\* a presence reply with a 4th field is being processed by this step
ReplyStep ==
    /\ DispatchStep
    /\ NumFields(msg') > 3
    /\ Field(msg', 2) = << "303" >>
    /\ Field(msg', 1) # << "PING" >>

\* C12: processing the same presence reply twice in a row is idempotent: the
\* second processing leaves the table as the first left it and passes
\* nothing to notify.
C12_ReplayIsIdempotent ==
    [][ (ReplyStep /\ hist.lines >= 1 /\ msg' = msg)
        => /\ nicknames' = nicknames
           /\ notified' = EmptyBag
           /\ sent' = EmptyBag
      ]_vars

\* C12 witness: the reply naming alice has been processed as the second of
\* two replies and found nothing to change
C12_Witness ==
    /\ hist.lines = 2
    /\ msg = IsonReply(<< Colon("alice") >>)
    /\ nicknames = [n \in DOMAIN nicknames |-> n = << "alice" >>]
    /\ << "bob" >> \in DOMAIN nicknames
    /\ notified = EmptyBag
    /\ sent = EmptyBag

AliceBob(a, b) == (<< "alice" >> :> a) @@ (<< "bob" >> :> b)

\* C13 as stated: from {alice: false, bob: true} the reply ":alice" sets
\* alice true with the one notification "alice is online" and leaves bob
\* true; a following reply ":" sets both false, with "alice is offline" and
\* "bob is offline".
C13_BobStaysOnline ==
    [][ /\ (ReplyStep /\ hist.lines = 0 /\ nicknames = AliceBob(FALSE, TRUE)
              /\ msg' = IsonReply(<< Colon("alice") >>))
           => /\ nicknames' = AliceBob(TRUE, TRUE)
              /\ notified' = SetToBag({ OnlineMsg(<< "alice" >>) })
        /\ (ReplyStep /\ hist.lines = 1 /\ nicknames = AliceBob(TRUE, TRUE)
              /\ msg = IsonReply(<< Colon("alice") >>)
              /\ msg' = IsonReply(<< << ":" >> >>))
           => /\ nicknames' = AliceBob(FALSE, FALSE)
              /\ notified' = SetToBag({ OfflineMsg(<< "alice" >>),
                                        OfflineMsg(<< "bob" >>) })
      ]_vars

\* C13 as amended: from {alice: false, bob: true} the reply ":alice" sets
\* alice true with "alice is online" and bob false with "bob is offline",
\* one notification each; a following reply ":" sets alice false with the
\* one notification "alice is offline" and leaves bob false.
C13_BobGoesOffline ==
    [][ /\ (ReplyStep /\ hist.lines = 0 /\ nicknames = AliceBob(FALSE, TRUE)
              /\ msg' = IsonReply(<< Colon("alice") >>))
           => /\ nicknames' = AliceBob(TRUE, FALSE)
              /\ notified' = SetToBag({ OnlineMsg(<< "alice" >>),
                                        OfflineMsg(<< "bob" >>) })
              /\ BagCardinality(sent') = 2
        /\ (ReplyStep /\ hist.lines = 1 /\ nicknames = AliceBob(TRUE, FALSE)
              /\ msg = IsonReply(<< Colon("alice") >>)
              /\ msg' = IsonReply(<< << ":" >> >>))
           => /\ nicknames' = AliceBob(FALSE, FALSE)
              /\ notified' = SetToBag({ OfflineMsg(<< "alice" >>) })
              /\ BagCardinality(sent') = 1
      ]_vars

\* C13 witness: the two replies of the example have been processed
C13_Witness ==
    /\ hist.lines = 2
    /\ msg = IsonReply(<< << ":" >> >>)
    /\ nicknames = AliceBob(FALSE, FALSE)
    /\ notified = SetToBag({ OfflineMsg(<< "alice" >>) })
    /\ BagCardinality(sent) = 1

\* C14: a presence reply whose 4th field is empty once its leading ":" is
\* stripped means nobody is online: whatever the configured peers, the
\* empty-named peer of an unset NICKNAMES included, afterwards every peer is
\* false, no "is online" is notified, and "<name> is offline" is notified
\* exactly for the peers that were true.
C14_EmptyReplyMeansNobody ==
    [][ (ReplyStep /\ NumFields(msg') = 4
                   /\ TrimPrefix(Field(msg', 4), << ":" >>) = << >>)
        => \A n \in DOMAIN nicknames :
              /\ ~nicknames'[n]
              /\ CopiesIn(OnlineMsg(n), notified') = 0
              /\ CopiesIn(OfflineMsg(n), notified')
                   = (IF nicknames[n] THEN 1 ELSE 0)
      ]_vars

\* C15: the key set of the table never changes: in every reachable state,
\* after any dispatched lines and reconnects, the table has one entry for
\* each peer name of the environment the process was started in and no
\* other entry.
C15_KeySetIsConfigured ==
    \E env \in Environments :
        /\ conf.Channels = env.channels
        /\ conf.Port = env.port
        /\ DOMAIN nicknames = env.names

\* C15 witness: after a reconnect, a reply that names somebody who is not a
\* configured peer has been processed
C15_Witness ==
    /\ pc = "active"
    /\ Len(socks) = 2
    /\ hist.last303 # << >>
    /\ \E n \in NamedIn(hist.last303) : n \notin DOMAIN nicknames

\* the step writes on no conn
NothingWritten ==
    /\ Len(socks') = Len(socks)
    /\ \A c \in 1..Len(socks) : socks'[c].out = socks[c].out

\* C16 as stated: dispatching a line whose second field is 303 and which has
\* fewer than 4 fields leaves the table as it is, notifies nothing, writes
\* nothing on the session and does not end the session.
C16_AnyShort303Ignored ==
    [][ (DispatchStep /\ NumFields(msg') \in 2..3
                      /\ Field(msg', 2) = << "303" >>)
        => /\ nicknames' = nicknames
           /\ notified' = EmptyBag
           /\ sent' = EmptyBag
           /\ NothingWritten
           /\ SessionGoesOn
      ]_vars

\* C16 as amended: dispatching a line whose second field is 303, whose first
\* field is not PING and which has fewer than 4 fields leaves the table as it
\* is, notifies nothing, writes nothing on the session and does not end the
\* session.  (A read error found behind the line is not part of the
\* dispatch.)
C16_Short303Ignored ==
    [][ (DispatchStep /\ NumFields(msg') \in 2..3
                      /\ Field(msg', 2) = << "303" >>
                      /\ Field(msg', 1) # << "PING" >>)
        => /\ nicknames' = nicknames
           /\ notified' = EmptyBag
           /\ sent' = EmptyBag
           /\ NothingWritten
           /\ SessionGoesOn
      ]_vars

\* C16 witness: a reply of three fields was dispatched while a peer was
\* online; the peer still is and the session is still read
C16_Witness ==
    /\ msg = IsonReply(<< >>)
    /\ hist.lines = 2
    /\ pc = "active"
    /\ ~socks[conn].closed
    /\ \E n \in DOMAIN nicknames : nicknames[n]
    /\ notified = EmptyBag

\* a SendEmail call of the bag failed for this message
FailedFor(mails, m) == \E e \in BagToSet(mails) : ~e.ok /\ Contains(e.Body, m)

\* C17: a failed send is not fatal and rolls nothing back: the table keeps
\* the new value of the peer whose mail failed, the other peers of the reply
\* are still processed (one SendEmail call per flip), the session goes on,
\* and the mail is not retried: the same reply dispatched next sends nothing.
C17_SendFailureIsNotFatal ==
    [][ /\ (ReplyStep /\ \E e \in BagToSet(sent') : ~e.ok)
           => /\ \A n \in DOMAIN nicknames :
                   /\ FailedFor(sent', OnlineMsg(n))
                        => (~nicknames[n] /\ nicknames'[n])
                   /\ FailedFor(sent', OfflineMsg(n))
                        => (nicknames[n] /\ ~nicknames'[n])
              /\ BagCardinality(sent')
                   = Cardinality({n \in DOMAIN nicknames :
                                    nicknames[n] # nicknames'[n]})
              /\ SessionGoesOn
        /\ (ReplyStep /\ hist.lines >= 1 /\ msg' = msg
                      /\ \E e \in BagToSet(sent) : ~e.ok)
           => /\ sent' = EmptyBag
              /\ nicknames' = nicknames
      ]_vars

\* C17 witness: of the two mails of one reply one failed and one was
\* accepted, both peers are online and the session is still read
C17_Witness ==
    /\ pc = "active"
    /\ ~socks[conn].closed
    /\ FailedFor(sent, OnlineMsg(<< "alice" >>))
    /\ \E e \in BagToSet(sent) : e.ok /\ Contains(e.Body, OnlineMsg(<< "bob" >>))
    /\ nicknames[<< "alice" >>]
    /\ nicknames[<< "bob" >>]

\* C18: the identity is reset to the configured base name on each new
\* session: whatever collisions came before, the identification pair that
\* opens a session carries the undecorated base name.
C18_SessionOpensWithBaseName ==
    \A c \in 1..Len(socks) :
        Len(socks[c].out) >= 2
            => /\ socks[c].out[1] = NickLine(BaseName)
               /\ socks[c].out[2] = UserLine(BaseName)

\* C19: when the server port (or address) is missing at startup the process
\* reports it and exits before it tries to connect; no open is attempted and
\* none is retried.
C19_BadAddressIsFatal ==
    ~CanDial(conf) => (pc \in { "main", "exited" } /\ hist.fails = 0)

\* the step dispatches a line that the ready case of the switch takes
ReadyStep == DispatchStep /\ Branch(msg', conf.BotName) = "ready"

\* the JOIN lines of the configured channels, in list order; none when the
\* first entry is empty
ExpectedJoins ==
    IF conf.Channels[1] = << >>
    THEN << >>
    ELSE [k \in 1..Len(conf.Channels) |->
            << "JOIN", SP >> \o conf.Channels[k] \o << CRLF >>]

\* the expected JOIN lines stand in a log, one after the other
JoinsIn(out) ==
    \E k \in 0..(Len(out) - Len(ExpectedJoins)) :
        SubSeq(out, k + 1, k + Len(ExpectedJoins)) = ExpectedJoins

\* C20: on the ready notice exactly one JOIN line per configured channel is
\* written on the session, in list order (none when the first channel is
\* empty), and the one poller this starts has written nothing yet; whenever
\* a poller writes its first poll request, the JOIN lines of its ready
\* handling are already in the log of the session it was started on.
C20_JoinsBeforeFirstPoll ==
    [][ /\ ReadyStep
           => /\ socks'[conn].out = socks[conn].out \o ExpectedJoins
              /\ OtherConnsUntouched
              /\ Len(pollers') = Len(pollers) + 1
              /\ SubSeq(pollers', 1, Len(pollers)) = pollers
              /\ pollers'[Len(pollers')].st = "start"
              /\ pollers'[Len(pollers')].home = conn
        /\ \A i \in 1..Len(pollers) :
              (pollers[i].st = "start" /\ pollers'[i].st # "start")
                  => JoinsIn(socks[pollers[i].home].out)
      ]_vars

\* C20 witness: on one session the identification pair, JOIN #a, JOIN #b and
\* a poll request follow each other
C20_Witness ==
    /\ pc = "active"
    /\ Len(socks[conn].out) = 5
    /\ socks[conn].out[3] = << "JOIN", SP, "#a", CRLF >>
    /\ socks[conn].out[4] = << "JOIN", SP, "#b", CRLF >>
    /\ socks[conn].out[5][1] = "ISON"
    /\ \E i \in 1..Len(pollers) : pollers[i].home = conn /\ pollers[i].st = "sleep"

\* a text up to its first "!", or all of it when it has none
UpToBang(s) ==
    IF \E k \in 1..Len(s) : s[k] = "!"
    THEN SubSeq(s, 1, (CHOOSE k \in 1..Len(s) :
                          s[k] = "!" /\ \A j \in 1..(k - 1) : s[j] # "!") - 1)
    ELSE s

\* the version notice owed to the sender of a line
NoticeTo(line) ==
    LET first == Field(line, 1)
        name == UpToBang(IF first # << >> /\ Head(first) = ":"
                         THEN Tail(first) ELSE first)
    IN  << "NOTICE", SP >> \o name
            \o << SP, ":", "NotifyBot", SP, version, CRLF >>

\* C21 as stated: dispatching a line whose second field is PRIVMSG and whose
\* 4th field contains VERSION writes exactly one NOTICE line to the sender
\* with the version string; with a 4th field that lacks VERSION nothing is
\* written; in both cases table and identity are unchanged.
C21_AnyPrivmsgVersion ==
    [][ (DispatchStep /\ NumFields(msg') >= 4
                      /\ Field(msg', 2) = << "PRIVMSG" >>)
        => /\ socks'[conn].out
                = (IF Contains(Field(msg', 4), << "VERSION" >>)
                   THEN Append(socks[conn].out, NoticeTo(msg'))
                   ELSE socks[conn].out)
           /\ nicknames' = nicknames
           /\ conf' = conf
      ]_vars

\* C21 as amended: the same for the lines whose first field is not PING.
C21_PrivmsgVersion ==
    [][ (DispatchStep /\ NumFields(msg') >= 4
                      /\ Field(msg', 2) = << "PRIVMSG" >>
                      /\ Field(msg', 1) # << "PING" >>)
        => /\ socks'[conn].out
                = (IF Contains(Field(msg', 4), << "VERSION" >>)
                   THEN Append(socks[conn].out, NoticeTo(msg'))
                   ELSE socks[conn].out)
           /\ OtherConnsUntouched
           /\ nicknames' = nicknames
           /\ conf' = conf
      ]_vars

\* C21 witness: the VERSION query of u!h was dispatched and the notice to u
\* is the last line written on the session
C21_Witness ==
    /\ pc = "active"
    /\ Field(msg, 1) = << ":", "u", "!", "h" >>
    /\ Contains(msg, << "VERSION" >>)
    /\ socks[conn].out[Len(socks[conn].out)]
         = << "NOTICE", SP, "u", SP, ":", "NotifyBot", SP, version, CRLF >>

\* C22: the poll interval is the configured duration when SLEEP_MIN parses,
\* and 5 minutes when SLEEP_MIN is empty or does not parse.  In seconds:
\* "10m" is 600, "-5m" is -300, "1h5m" is 3900, "0" is 0; "", "5" and "abc"
\* give 300.
C22_PollInterval ==
    pc # "main"
        => /\ conf.SleepMin = << >> => sleepDuration = 300
           /\ conf.SleepMin \in Unparsable => sleepDuration = 300
           /\ conf.SleepMin \in { << "0" >>, << "-", "0" >>, << "+", "0" >> }
                => sleepDuration = 0
           /\ conf.SleepMin = << "10", "m" >> => sleepDuration = 600
           /\ conf.SleepMin = << "1", "h", "5", "m" >> => sleepDuration = 3900
           /\ \A n \in Numerals, u \in Units :
                /\ conf.SleepMin \in { << n, u >>, << "+", n, u >> }
                     => sleepDuration = NumeralValue[n] * UnitSeconds[u]
                /\ conf.SleepMin = << "-", n, u >>
                     => sleepDuration = 0 - NumeralValue[n] * UnitSeconds[u]

\* C22 witness: SLEEP_MIN=5, which has no unit, has given the default
C22_Witness ==
    /\ pc = "connecting"
    /\ conf.SleepMin = << "5" >>
    /\ sleepDuration = 300

\* C23: a presence reply that lists several names marks every configured
\* peer named anywhere in its list as online, not only the first one.
C23_EveryListedPeerOnline ==
    [][ ReplyStep
        => \A n \in NamedIn(msg') \cap DOMAIN nicknames : nicknames'[n]
      ]_vars

\* the log of a conn holds a poll request
PolledOn(c) == \E k \in 1..Len(socks[c].out) : socks[c].out[k][1] = "ISON"

\* C24: a poller writes its poll requests to the session it was started on
\* and to no session opened later: a session that holds a poll request is
\* one whose ready notice was dispatched and started a poller.
C24_PollsOnOwnSession ==
    \A c \in 1..Len(socks) :
        PolledOn(c) => \E i \in 1..Len(pollers) : pollers[i].home = c

\* the line is taken by one of the cases above the ready case, without an
\* index out of range
EarlierBranch(line) ==
    \/ NumFields(line) >= 2 /\ Field(line, 1) = << "PING" >>
    \/ NumFields(line) >= 2 /\ Field(line, 2) \in { << "303" >>, << "433" >> }
    \/ NumFields(line) >= 4 /\ Field(line, 2) = << "PRIVMSG" >>

\* C25: the ready check is made on every dispatched line: a line that an
\* earlier case takes (first field PING, or second field 303, 433 or
\* PRIVMSG) and that contains the ready notice of the current identity also
\* gets the ready handling: the bot is connected and one poller is started.
C25_ReadyCheckedOnEveryLine ==
    [][ (DispatchStep /\ EarlierBranch(msg')
                      /\ Contains(msg', ReadyNotice(conf.BotName)))
        => /\ connected'
           /\ Len(pollers') = Len(pollers) + 1
      ]_vars

C27_IdentifyThenRead ==
    [][ (pc = "identifying" /\ pc' # "identifying")
        => /\ socks'[conn].out
                = socks[conn].out
                    \o << NickLine(conf.BotName), UserLine(conf.BotName) >>
           /\ pc' = "active"
           /\ conn' = conn
      ]_vars

\* the conns that are open
Open == { c \in 1..Len(socks) : ~socks[c].closed }

\* C28: at most one session is open at any time, the current session is
\* closed before the next is opened (no conn is open while the bot is
\* dialling or backing off), and while a session is read no other is open.
C28_AtMostOneSessionOpen ==
    /\ Cardinality(Open) <= 1
    /\ pc \in { "connecting", "reconnecting", "backoff" } => Open = { }
    /\ pc = "active" => Open \subseteq { conn }

\* C29: the table is written only while a presence reply is dispatched: no
\* step of a poller, of connect or reconnect, and no other case of the
\* switch changes any table value.
C29_OnlyRepliesWriteTable ==
    [][ nicknames' # nicknames => ReplyStep ]_vars

\* C29 witness: a peer was marked online, a poller has written a poll
\* request, and the bot reads a session opened by a reconnect; the peer is
\* still online
C29_Witness ==
    /\ \E n \in DOMAIN nicknames : nicknames[n]
    /\ hist.polls >= 1
    /\ Len(socks) >= 2
    /\ conn = Len(socks)
    /\ socks[1].closed
    /\ pc = "active"

\* C30: the table starts with every configured peer false and a reconnect
\* resets no value: no step that opens or replaces the session changes the
\* table, and when the first presence reply of a session opened by a
\* reconnect lists a peer that was true before, the peer stays true and no
\* notification is sent for it.
C30_TableSurvivesReconnect ==
    [][ /\ pc = "main" => \A n \in DOMAIN nicknames : ~nicknames[n]
        /\ conn' # conn => nicknames' = nicknames
        /\ (ReplyStep /\ ~hist.replied /\ conn >= 2)
             => \A n \in NamedIn(msg') \cap DOMAIN nicknames :
                   nicknames[n]
                     => /\ nicknames'[n]
                        /\ CopiesIn(OnlineMsg(n), notified') = 0
                        /\ CopiesIn(OfflineMsg(n), notified') = 0
      ]_vars

\* the configured name followed by k underscores
Underscored(k) == BaseName \o [i \in 1..k |-> "_"]

\* the server's ready notice addressed to a name
NoticeOn(name) == Line(<< Srv, Tok("NOTICE"), name, Colon("on") >>)

\* C31: the ready match uses the identity current when the line is
\* dispatched: after k collision lines a ready notice addressed to the
\* configured name followed by k underscores starts a poller, and a notice
\* addressed to the name with any other number of underscores (the bare
\* configured name, when k > 0) starts none.
C31_ReadyMatchesCurrentIdentity ==
    [][ \A k \in 0..MaxLines :
          (DispatchStep /\ msg' = NoticeOn(Underscored(k)))
            => IF k = hist.collisions
               THEN /\ Len(pollers') = Len(pollers) + 1
                    /\ connected'
               ELSE /\ pollers' = pollers
                    /\ connected' = connected
      ]_vars

\* C31 witness: after one collision the notice addressed to "bot_" was
\* dispatched and a poller was started
C31_Witness ==
    /\ hist.collisions = 1
    /\ msg = NoticeOn(Underscored(1))
    /\ Len(pollers) = 1
    /\ connected
    /\ pc = "active"

\* C32: a dispatched line of at least two fields that matches no case (first
\* field neither PING nor ERROR, second field none of 303, 433 and PRIVMSG,
\* no ready notice of the current identity in it) is ignored: nothing is
\* written on any session, table and identity are unchanged, notify is not
\* called, no poller is started and the session stays active.  (A read error
\* found behind the line is not part of the dispatch.)
C32_OtherLinesIgnored ==
    [][ (/\ DispatchStep
         /\ NumFields(msg') >= 2
         /\ Field(msg', 1) \notin { << "PING" >>, << "ERROR" >> }
         /\ Field(msg', 2) \notin { << "303" >>, << "433" >>, << "PRIVMSG" >> }
         /\ ~Contains(msg', ReadyNotice(conf.BotName)))
        => /\ \A c \in 1..Len(socks) : socks'[c].out = socks[c].out
           /\ OtherConnsUntouched
           /\ SessionGoesOn
           /\ nicknames' = nicknames
           /\ conf' = conf
           /\ notified' = EmptyBag
           /\ sent' = EmptyBag
           /\ pollers' = pollers
           /\ connected' = connected
      ]_vars

\* C32 witness: ":srv 001 bot" was dispatched, nothing has been written since
\* the identification and the session is still read
C32_Witness ==
    /\ msg = Line(<< Srv, Tok("001"), BaseName >>)
    /\ hist.lines = 1
    /\ pc = "active"
    /\ socks[conn].out = << NickLine(conf.BotName), UserLine(conf.BotName) >>
    /\ pollers = << >>

\* C34: the interval a poller sleeps between two poll requests, which is
\* b.sleepDuration as NewNotifyBot set it, is strictly positive for every
\* value of SLEEP_MIN, also for one that parses to zero or to a negative
\* duration.
C34_SleepIsPositive ==
    pc # "main" => sleepDuration > 0

\* the supervisor is between two sessions: dialling or sleeping before the
\* next dial
Retrying == pc \in { "connecting", "reconnecting", "backoff" }

\* C33: when the server can be reached, the retry loop never gives up:
\* from CONNECTING the bot eventually reads (is ACTIVE on) a session opened
\* after that moment, and from any point of the retry loop the
\* identification pair is eventually written on a session opened after
\* that moment, however many dials fail first.
C33_RetryReachesActive ==
    \A k \in 0..(MaxConns - 1) :
        /\ (pc = "connecting" /\ CanDial(conf) /\ Len(socks) = k)
             ~> (pc = "active" /\ conn > k /\ Identified(socks[conn].out))
        /\ (Retrying /\ CanDial(conf) /\ Len(socks) = k)
             ~> (Len(socks) > k /\ Identified(socks[Len(socks)].out))

\* C33 witness: a dial has succeeded after a failed one and a backoff
C33_Witness ==
    /\ pc = "identifying"
    /\ hist.fails >= 1
    /\ hist.sleeps >= 1
    /\ ~socks[conn].closed

====
